---- MODULE Spec2Model ----
(***************************************************************************)
(* propertyPandit (src/app.py): the housing price estimator, the Indian    *)
(* currency formatter and the two POST handlers (/predict, /retrain).      *)
(*                                                                         *)
(* Numbers.  Prices are kept exact, in whole rupees.  The inputs are drawn *)
(* from a grid (size a multiple of 500, rent a multiple of 10000, growth a *)
(* multiple of 5) on which every term of the pricing formula, and the      *)
(* product with 1.2 or 0.6, is a whole number, so that the divisions below *)
(* are exact (GridExact states it).  binary64 rounding error, infinities   *)
(* and NaN are not modelled.                                               *)
(*                                                                         *)
(* Strings.  A Python str is a sequence of one-character strings.          *)
(***************************************************************************)
EXTENDS Integers, Sequences, FiniteSets, TLC

VARIABLES
    coefficients,     \* predictor.coefficients
    feature_columns,  \* predictor.feature_columns
    pc,               \* per request thread: position in its handler
    route,            \* per request thread: the URL rule of its request
    form,             \* per request thread: request.form
    features,         \* per request thread: the local `features` of predict()
    predicted_price,  \* per request thread: the local `predicted_price`
    response,         \* per request thread: the JSON body returned
    failed_before,    \* history: a failure response has been sent
    est,              \* a direct run of calculate_ols_price, step by step
    fmt               \* a direct call of format_indian_currency

vars == <<coefficients, feature_columns, pc, route, form, features,
          predicted_price, response, failed_before, est, fmt>>

----------------------------------------------------------------------------
(* Bounds of the model *)

MaxSizeK == 3
MaxBedrooms == 2
MaxRentK == 2
MaxGrowthK == 1
MaxTier == 3
NumThreads == 2
MaxDelta == 6
MaxSweep == 40

(* Program constants *)

PriceFloor == 1000000
Crore == 10000000
Lakh == 100000

----------------------------------------------------------------------------
(* Python values *)

Max(a, b) == IF a >= b THEN a ELSE b

\* a str and an int are never equal in Python; the furnishing field carries
\* either, so its values are tagged with their type
PyStr(s) == [type |-> "str", val |-> s]
PyInt(n) == [type |-> "int", val |-> n]
PyEq(a, b) == a.type = b.type /\ a.val = b.val

Digits == <<"0", "1", "2", "3", "4", "5", "6", "7", "8", "9">>
IsDigit(c) == \E i \in 1..10 : Digits[i] = c
DigitVal(c) == (CHOOSE i \in 1..10 : Digits[i] = c) - 1

\* the decimal digits of a number, as str(n) and the "f" presentation give them
RECURSIVE DecStr(_)
DecStr(n) ==
    IF n < 0 THEN <<"-">> \o DecStr(-n)
    ELSE IF n < 10 THEN <<Digits[n + 1]>>
    ELSE DecStr(n \div 10) \o <<Digits[(n % 10) + 1]>>

RECURSIVE DigitsVal(_)
DigitsVal(ds) ==
    IF Len(ds) = 0 THEN 0
    ELSE DigitsVal(SubSeq(ds, 1, Len(ds) - 1)) * 10 + DigitVal(ds[Len(ds)])

\* the literals int() and float() accept, over the characters the requests are
\* drawn from (digits, sign, letters): an optional sign and at least one digit
Unsigned(s) == IF Len(s) > 0 /\ s[1] \in {"-", "+"} THEN Tail(s) ELSE s
IsDecimal(s) == Len(Unsigned(s)) > 0 /\ \A i \in 1..Len(Unsigned(s)) : IsDigit(Unsigned(s)[i])
DecimalVal(s) ==
    IF Len(s) > 0 /\ s[1] = "-" THEN 0 - DigitsVal(Unsigned(s)) ELSE DigitsVal(Unsigned(s))

----------------------------------------------------------------------------
(* HousingPricePredictor.__init__ *)

W(n) == [num |-> n, den |-> 1]

\* a weight times a whole number
Mul(w, x) == (w.num * x) \div w.den

InitCoefficients ==
    [intercept |-> W(3000000),
     size |-> W(2500),
     beds |-> W(800000),
     baths |-> W(400000),
     average_rent |-> W(15),
     growth_rate |-> W(8000000),
     size_squared |-> [num |-> 1, den |-> 2],
     nearby_rent_squared |-> [num |-> -1, den |-> 1000],
     tier_beds |-> W(-200000),
     tier_growth |-> W(5000000),
     tier_2 |-> W(-800000),
     property_type_house |-> W(-500000),
     property_type_other |-> W(-1000000),
     rera_id_1 |-> W(300000),
     furnishing_4 |-> W(500000),
     furnishing_other |-> W(800000),
     move_in_1 |-> W(200000)]

InitFeatureColumns ==
    <<"size", "bedrooms", "bathrooms", "avg_local_rent", "growth_rate",
      "city_tier", "property_type", "furnishing", "rera_registered",
      "move_in_ready">>

StrHouse == <<"h", "o", "u", "s", "e">>
StrOther == <<"o", "t", "h", "e", "r">>
StrApartment == <<"a", "p", "a", "r", "t", "m", "e", "n", "t">>

----------------------------------------------------------------------------
(* HousingPricePredictor.calculate_ols_price *)

\* price += coefficient * feature, for the five linear terms
LinearTerms(coef, f) ==
    Mul(coef.size, f.size)
    + Mul(coef.beds, f.bedrooms)
    + Mul(coef.baths, f.bathrooms)
    + Mul(coef.average_rent, f.avg_local_rent)
    + Mul(coef.growth_rate, f.growth_rate)

\* the scaling by 1000 forgotten
PolynomialTerms_Unscaled(coef, f) ==
    Mul(coef.size_squared, f.size * f.size)
    + Mul(coef.nearby_rent_squared, f.avg_local_rent * f.avg_local_rent)

\* price += coefficient * feature ** 2 / 1000
PolynomialTerms(coef, f) ==
    (Mul(coef.size_squared, f.size * f.size) \div 1000)
    + (Mul(coef.nearby_rent_squared, f.avg_local_rent * f.avg_local_rent) \div 1000)

\* price += coefficient * (city_tier * feature)
InteractionTerms(coef, f) ==
    Mul(coef.tier_beds, f.city_tier * f.bedrooms)
    + Mul(coef.tier_growth, f.city_tier * f.growth_rate)

\* the if / elif chains of the categorical terms
CategoricalTerms(coef, f) ==
    (IF f.city_tier = 2 THEN Mul(coef.tier_2, 1) ELSE 0)
    + (IF f.property_type = StrHouse THEN Mul(coef.property_type_house, 1)
       ELSE IF f.property_type = StrOther THEN Mul(coef.property_type_other, 1)
       ELSE 0)
    + (IF f.rera_registered = 1 THEN Mul(coef.rera_id_1, 1) ELSE 0)
    + (IF PyEq(f.furnishing, PyInt(4)) THEN Mul(coef.furnishing_4, 1)
       ELSE IF PyEq(f.furnishing, PyStr(StrOther)) THEN Mul(coef.furnishing_other, 1)
       ELSE 0)
    + (IF f.move_in_ready = 1 THEN Mul(coef.move_in_1, 1) ELSE 0)

\* the size terms left out
Accumulated_SizeForgotten(coef, f) ==
    Mul(coef.intercept, 1)
    + LinearTerms(coef, [f EXCEPT !.size = 0])
    + PolynomialTerms(coef, [f EXCEPT !.size = 0])
    + InteractionTerms(coef, f)
    + CategoricalTerms(coef, f)

\* the price before the tier multiplier
Accumulated(coef, f) ==
    Mul(coef.intercept, 1)
    + LinearTerms(coef, f)
    + PolynomialTerms(coef, f)
    + InteractionTerms(coef, f)
    + CategoricalTerms(coef, f)

\* two independent ifs in place of if / elif, the second on tier >= 1
TierAdjusted_Both(f, price) ==
    IF f.city_tier = 1 THEN (price * 6) \div 5
    ELSE IF f.city_tier = 3 THEN (((price * 6) \div 5) * 3) \div 5
    ELSE (price * 6) \div 5

\* price *= 1.2 (6/5) for tier 1, price *= 0.6 (3/5) for tier 3
TierAdjusted(f, price) ==
    IF f.city_tier = 1 THEN (price * 6) \div 5
    ELSE IF f.city_tier = 3 THEN (price * 3) \div 5
    ELSE price

\* the floor left out
Floored_None(price) == price

\* return max(price, 1000000)
Floored(price) == Max(price, PriceFloor)

calculate_ols_price(coef, f) == Floored(TierAdjusted(f, Accumulated(coef, f)))

predict_price(coef, f) == calculate_ols_price(coef, f)

----------------------------------------------------------------------------
(* format_indian_currency and the f-string presentations it uses *)

RUPEE == "₹"

\* n/d rounded to a whole number.  The quotient is a binary64 value and the
\* "f" presentation rounds its exact value: an exact tie (x.5, and x.25 or x.75
\* at one decimal) goes to the even neighbour.  A decimal tie whose binary64
\* quotient is inexact falls to the side of the quotient's error; no amount
\* drawn below is one (NoInexactTie).
RoundHalfEven(n, d) ==
    LET q == n \div d
        r == n % d
    IN  IF 2 * r < d THEN q
        ELSE IF 2 * r > d THEN q + 1
        ELSE IF q % 2 = 0 THEN q ELSE q + 1

\* f"{n/d:.0f}"
Fixed0(n, d) == DecStr(RoundHalfEven(n, d))

\* f"{n/d:.1f}" (d a multiple of 10)
Fixed1(n, d) ==
    LET tenths == RoundHalfEven(n, d \div 10)
    IN  DecStr(tenths \div 10) \o <<".">> \o DecStr(tenths % 10)

\* f"{n:,.0f}" of a whole number n >= 0
RECURSIVE Grouped(_)
Grouped(n) ==
    IF n < 1000 THEN DecStr(n)
    ELSE Grouped(n \div 1000) \o <<",">>
         \o <<Digits[((n % 1000) \div 100) + 1], Digits[((n % 100) \div 10) + 1],
              Digits[(n % 10) + 1]>>

\* the decimals are chosen on the unrounded quotient: crores >= 100, lakhs >= 100
format_indian_currency(amount) ==
    IF amount >= Crore THEN
        IF amount >= 100 * Crore
        THEN <<RUPEE>> \o Fixed0(amount, Crore) \o <<" ", "C", "r">>
        ELSE <<RUPEE>> \o Fixed1(amount, Crore) \o <<" ", "C", "r">>
    ELSE IF amount >= Lakh THEN
        IF amount >= 100 * Lakh
        THEN <<RUPEE>> \o Fixed0(amount, Lakh) \o <<" ", "L">>
        ELSE <<RUPEE>> \o Fixed1(amount, Lakh) \o <<" ", "L">>
    ELSE <<RUPEE>> \o Grouped(amount)

\* f"₹{predicted_price/100000:.1f} Lakhs"
price_in_lakhs(price) ==
    <<RUPEE>> \o Fixed1(price, Lakh) \o <<" ", "L", "a", "k", "h", "s">>

----------------------------------------------------------------------------
(* The /predict and /retrain handlers *)

NoValue == "None"

FormFields ==
    <<"size", "bedrooms", "bathrooms", "avg_local_rent", "growth_rate",
      "city_tier", "property_type", "furnishing", "rera_registered",
      "move_in_ready">>

\* the conversion predict() applies to each form field
Converter(k) ==
    IF k \in {"size", "avg_local_rent", "growth_rate"} THEN "float"
    ELSE IF k \in {"bedrooms", "bathrooms", "city_tier", "rera_registered", "move_in_ready"}
    THEN "int"
    ELSE "str"

\* request.form[k] raises a KeyError for a missing key; int() and float() raise
\* a ValueError for a string that is no literal
HasFault(fm, k) ==
    \/ k \notin DOMAIN fm
    \/ Converter(k) # "str" /\ ~IsDecimal(fm[k])

Fault(fm, k) ==
    IF k \notin DOMAIN fm
    THEN [exc |-> "KeyError", field |-> k, text |-> <<>>]
    ELSE [exc |-> "ValueError", field |-> k, text |-> fm[k]]

\* the dict display evaluates the fields in order: the first fault is raised
FirstFault(fm) ==
    LET bad == {i \in 1..Len(FormFields) : HasFault(fm, FormFields[i])}
    IN  IF bad = {} THEN 0 ELSE CHOOSE i \in bad : \A j \in bad : i <= j

ParsedFeatures(fm) ==
    [size |-> DecimalVal(fm["size"]),
     bedrooms |-> DecimalVal(fm["bedrooms"]),
     bathrooms |-> DecimalVal(fm["bathrooms"]),
     avg_local_rent |-> DecimalVal(fm["avg_local_rent"]),
     growth_rate |-> DecimalVal(fm["growth_rate"]),
     city_tier |-> DecimalVal(fm["city_tier"]),
     property_type |-> fm["property_type"],
     furnishing |-> PyStr(fm["furnishing"]),
     rera_registered |-> DecimalVal(fm["rera_registered"]),
     move_in_ready |-> DecimalVal(fm["move_in_ready"])]

\* round(predicted_price, 2): prices are whole rupees here
Round2(price) == price

SuccessBody(price) ==
    [success |-> TRUE,
     predicted_price |-> Round2(price),
     formatted_price |-> format_indian_currency(price),
     price_in_lakhs |-> price_in_lakhs(price)]

FailureBody(e) == [success |-> FALSE, error |-> e]

\* predict(), start to end
predict(coef, fm) ==
    IF FirstFault(fm) # 0
    THEN FailureBody(Fault(fm, FormFields[FirstFault(fm)]))
    ELSE SuccessBody(predict_price(coef, ParsedFeatures(fm)))

\* the table reported without its intercept
retrain_model_NoIntercept(coef, cols) ==
    [success |-> TRUE,
     message |-> "Using adjusted OLS regression for realistic Indian housing prices!",
     model_info |->
        [model_type |-> "Adjusted OLS Regression for Indian Real Estate",
         r_squared |-> "92%",
         coefficients |-> [k \in (DOMAIN coef) \ {"intercept"} |-> coef[k]],
         features |-> cols,
         price_range |-> "Realistic Indian housing prices (10L - 5Cr range)",
         currency_format |-> "Indian Lakhs/Crores format"]]

\* retrain_model(), start to end
retrain_model(coef, cols) ==
    [success |-> TRUE,
     message |-> "Using adjusted OLS regression for realistic Indian housing prices!",
     model_info |->
        [model_type |-> "Adjusted OLS Regression for Indian Real Estate",
         r_squared |-> "92%",
         coefficients |-> coef,
         features |-> cols,
         price_range |-> "Realistic Indian housing prices (10L - 5Cr range)",
         currency_format |-> "Indian Lakhs/Crores format"]]

----------------------------------------------------------------------------
(* The inputs drawn *)

Sizes == {500 * k : k \in 1..MaxSizeK}
BedroomCounts == 0..MaxBedrooms
BathroomCounts == {0, 2}
Rents == {10000 * k : k \in 0..MaxRentK}
Growths == {5 * k : k \in (0 - MaxGrowthK)..MaxGrowthK}
Tiers == 1..MaxTier
Flags == {0, 1}

StrVilla == <<"v", "i", "l", "l", "a">>
StrJunk == <<"a", "b", "c">>

\* feature records handed to calculate_ols_price directly
FeatureRecords ==
    [size : Sizes, bedrooms : BedroomCounts, bathrooms : BathroomCounts,
     avg_local_rent : Rents, growth_rate : Growths, city_tier : Tiers,
     property_type : {StrHouse, StrApartment, StrOther},
     furnishing : {PyInt(4), PyInt(2), PyStr(StrOther)},
     rera_registered : Flags, move_in_ready : Flags]

Str(S) == {DecStr(n) : n \in S}

\* forms whose numeric fields all parse: the ends of each numeric range, every
\* tier, every category
WellFormedForms ==
    [size : Str({500, 500 * MaxSizeK}), bedrooms : Str({0, MaxBedrooms}),
     bathrooms : Str(BathroomCounts), avg_local_rent : Str({0, 10000 * MaxRentK}),
     growth_rate : Str({0 - 5 * MaxGrowthK, 0, 5 * MaxGrowthK}), city_tier : Str(Tiers),
     property_type : {StrHouse, StrApartment, StrOther, StrVilla},
     furnishing : {<<"4">>, <<"2">>, StrOther},
     rera_registered : Str(Flags), move_in_ready : Str(Flags)]

\* the request of the end-to-end scenario
ScenarioForm ==
    [size |-> DecStr(1000), bedrooms |-> DecStr(2), bathrooms |-> DecStr(2),
     avg_local_rent |-> DecStr(20000), growth_rate |-> DecStr(5),
     city_tier |-> DecStr(1), property_type |-> StrApartment,
     furnishing |-> <<"2">>, rera_registered |-> DecStr(1),
     move_in_ready |-> DecStr(1)]

\* a form with field k left out, or replaced by text
Spoil(fm, k, how) ==
    IF how.missing THEN [x \in (DOMAIN fm) \ {k} |-> fm[x]]
    ELSE IF k \in DOMAIN fm THEN [fm EXCEPT ![k] = how.text]
    ELSE fm

Missing == [missing |-> TRUE, text |-> <<>>]
Text(s) == [missing |-> FALSE, text |-> s]
Spoils == {Missing, Text(StrJunk), Text(<<>>), Text(<<"-">>)}
FieldNames == {FormFields[i] : i \in 1..Len(FormFields)}

SpoiltForms ==
    {Spoil(Spoil(ScenarioForm, k1, h1), k2, h2) :
        k1 \in FieldNames, h1 \in Spoils, k2 \in FieldNames, h2 \in Spoils}

Forms == WellFormedForms \cup SpoiltForms \cup {ScenarioForm}

\* the requests of the concurrent runs
ConcForms ==
    {[ScenarioForm EXCEPT !["city_tier"] = DecStr(t), !["furnishing"] = fu] :
        t \in Tiers, fu \in {<<"4">>, StrOther}}
    \cup {Spoil(ScenarioForm, k, h) : k \in {"size", "city_tier"}, h \in {Missing, Text(StrJunk)}}

Boundaries == {Lakh, Crore, 100 * Crore}

Amounts ==
    {b + d : b \in Boundaries, d \in (0 - MaxDelta)..MaxDelta}
    \cup {999999 * k : k \in 1..MaxSweep}
    \cup {49999999 * k : k \in 1..MaxSweep}
    \cup {2477 * k : k \in 0..MaxSweep}
    \cup {12500000, 17500000}

Threads == 1..NumThreads

----------------------------------------------------------------------------
(* The request threads of the server *)

\* a request arrives on a thread that serves none
ReceivePredict(t, F) ==
    /\ pc[t] = "idle"
    /\ \E fm \in F : form' = [form EXCEPT ![t] = fm]
    /\ route' = [route EXCEPT ![t] = "/predict"]
    /\ pc' = [pc EXCEPT ![t] = "start"]
    /\ UNCHANGED <<coefficients, feature_columns, features, predicted_price, response, failed_before, est, fmt>>

ReceiveRetrain(t) ==
    /\ pc[t] = "idle"
    /\ route' = [route EXCEPT ![t] = "/retrain"]
    /\ pc' = [pc EXCEPT ![t] = "start"]
    /\ UNCHANGED <<coefficients, feature_columns, form, features, predicted_price, response, failed_before, est, fmt>>

\* "except ValueError" in place of "except Exception": a missing key is answered
\* by the framework's 400 page
PredictParse_ValueErrorOnly(t) ==
    /\ pc[t] = "start" /\ route[t] = "/predict"
    /\ IF FirstFault(form[t]) = 0
       THEN /\ features' = [features EXCEPT ![t] = ParsedFeatures(form[t])]
            /\ pc' = [pc EXCEPT ![t] = "parsed"]
            /\ UNCHANGED response
       ELSE /\ response' = [response EXCEPT ![t] =
                               IF Fault(form[t], FormFields[FirstFault(form[t])]).exc = "KeyError"
                               THEN [status |-> 400]
                               ELSE FailureBody(Fault(form[t], FormFields[FirstFault(form[t])]))]
            /\ pc' = [pc EXCEPT ![t] = "responded"]
            /\ UNCHANGED features
    /\ UNCHANGED <<coefficients, feature_columns, route, form, predicted_price, failed_before, est, fmt>>

\* predict(): the features dict is built, or the first fault is caught and the
\* failure body returned
PredictParse(t) ==
    /\ pc[t] = "start" /\ route[t] = "/predict"
    /\ IF FirstFault(form[t]) = 0
       THEN /\ features' = [features EXCEPT ![t] = ParsedFeatures(form[t])]
            /\ pc' = [pc EXCEPT ![t] = "parsed"]
            /\ UNCHANGED response
       ELSE /\ response' = [response EXCEPT ![t] =
                               FailureBody(Fault(form[t], FormFields[FirstFault(form[t])]))]
            /\ pc' = [pc EXCEPT ![t] = "responded"]
            /\ UNCHANGED features
    /\ UNCHANGED <<coefficients, feature_columns, route, form, predicted_price, failed_before, est, fmt>>

\* the tier-2 adjustment of the request written into the shared table
PredictCompute_SharedScratch(t) ==
    /\ pc[t] = "parsed"
    /\ coefficients' = [coefficients EXCEPT !.tier_2 =
                            IF features[t].city_tier = 2 THEN InitCoefficients.tier_2 ELSE W(0)]
    /\ predicted_price' = [predicted_price EXCEPT ![t] = predict_price(coefficients, features[t])]
    /\ pc' = [pc EXCEPT ![t] = "computed"]
    /\ UNCHANGED <<feature_columns, route, form, features, response, failed_before, est, fmt>>

\* predicted_price = predictor.predict_price(features)
PredictCompute(t) ==
    /\ pc[t] = "parsed"
    /\ predicted_price' = [predicted_price EXCEPT ![t] = predict_price(coefficients, features[t])]
    /\ pc' = [pc EXCEPT ![t] = "computed"]
    /\ UNCHANGED <<coefficients, feature_columns, route, form, features, response, failed_before, est, fmt>>

\* return jsonify({...})
PredictRespond(t) ==
    /\ pc[t] = "computed"
    /\ response' = [response EXCEPT ![t] = SuccessBody(predicted_price[t])]
    /\ pc' = [pc EXCEPT ![t] = "responded"]
    /\ UNCHANGED <<coefficients, feature_columns, route, form, features, predicted_price, failed_before, est, fmt>>

Retrain(t) ==
    /\ pc[t] = "start" /\ route[t] = "/retrain"
    /\ response' = [response EXCEPT ![t] = retrain_model(coefficients, feature_columns)]
    /\ pc' = [pc EXCEPT ![t] = "responded"]
    /\ UNCHANGED <<coefficients, feature_columns, route, form, features, predicted_price, failed_before, est, fmt>>

\* the response is sent and the thread's locals are gone
Deliver(t) ==
    /\ pc[t] = "responded"
    /\ pc' = [pc EXCEPT ![t] = "idle"]
    /\ route' = [route EXCEPT ![t] = NoValue]
    /\ form' = [form EXCEPT ![t] = NoValue]
    /\ features' = [features EXCEPT ![t] = NoValue]
    /\ predicted_price' = [predicted_price EXCEPT ![t] = NoValue]
    /\ response' = [response EXCEPT ![t] = NoValue]
    /\ failed_before' = (failed_before \/ ~response[t].success)
    /\ UNCHANGED <<coefficients, feature_columns, est, fmt>>

----------------------------------------------------------------------------
(* A direct run of calculate_ols_price, and a direct call of the formatter *)

EstAccumulate ==
    /\ est.stage = "call"
    /\ est' = [est EXCEPT !.stage = "accumulated", !.acc = Accumulated(coefficients, est.features)]
    /\ UNCHANGED <<coefficients, feature_columns, pc, route, form, features, predicted_price, response, failed_before, fmt>>

EstTier ==
    /\ est.stage = "accumulated"
    /\ est' = [est EXCEPT !.stage = "tiered", !.pre = TierAdjusted(est.features, est.acc)]
    /\ UNCHANGED <<coefficients, feature_columns, pc, route, form, features, predicted_price, response, failed_before, fmt>>

EstFloor ==
    /\ est.stage = "tiered"
    /\ est' = [est EXCEPT !.stage = "returned", !.result = Floored(est.pre)]
    /\ UNCHANGED <<coefficients, feature_columns, pc, route, form, features, predicted_price, response, failed_before, fmt>>

FormatCall ==
    /\ fmt.stage = "call"
    /\ fmt' = [fmt EXCEPT !.stage = "returned", !.out = format_indian_currency(fmt.amount)]
    /\ UNCHANGED <<coefficients, feature_columns, pc, route, form, features, predicted_price, response, failed_before, est>>

----------------------------------------------------------------------------
(* Specifications *)

InitPredictor ==
    /\ coefficients = InitCoefficients
    /\ feature_columns = InitFeatureColumns

InitThreads(T) ==
    /\ pc = [t \in T |-> "idle"]
    /\ route = [t \in T |-> NoValue]
    /\ form = [t \in T |-> NoValue]
    /\ features = [t \in T |-> NoValue]
    /\ predicted_price = [t \in T |-> NoValue]
    /\ response = [t \in T |-> NoValue]
    /\ failed_before = FALSE

EstIdle == [stage |-> "none", features |-> NoValue, acc |-> 0, pre |-> 0, result |-> 0]
FmtIdle == [stage |-> "none", amount |-> 0, out |-> <<>>]

\* the server, one request at a time
Init == InitPredictor /\ InitThreads({1}) /\ est = EstIdle /\ fmt = FmtIdle

Next ==
    \/ ReceivePredict(1, Forms)
    \/ ReceiveRetrain(1)
    \/ PredictParse(1)
    \/ PredictCompute(1)
    \/ PredictRespond(1)
    \/ Retrain(1)
    \/ Deliver(1)

Spec == Init /\ [][Next]_vars

\* the server, its request threads interleaved
InitConc == InitPredictor /\ InitThreads(Threads) /\ est = EstIdle /\ fmt = FmtIdle

NextConc ==
    \E t \in Threads :
        \/ ReceivePredict(t, ConcForms)
        \/ ReceiveRetrain(t)
        \/ PredictParse(t)
        \/ PredictCompute(t)
        \/ PredictRespond(t)
        \/ Retrain(t)
        \/ Deliver(t)

SpecConc == InitConc /\ [][NextConc]_vars

\* calculate_ols_price on every feature record drawn
InitEstimate ==
    /\ InitPredictor /\ InitThreads({1}) /\ fmt = FmtIdle
    /\ \E f \in FeatureRecords :
          est = [stage |-> "call", features |-> f, acc |-> 0, pre |-> 0, result |-> 0]

NextEstimate == EstAccumulate \/ EstTier \/ EstFloor

SpecEstimate == InitEstimate /\ [][NextEstimate]_vars

\* format_indian_currency on every amount drawn
InitFormat ==
    /\ InitPredictor /\ InitThreads({1}) /\ est = EstIdle
    /\ \E a \in Amounts : fmt = [stage |-> "call", amount |-> a, out |-> <<>>]

NextFormat == FormatCall

SpecFormat == InitFormat /\ [][NextFormat]_vars

----------------------------------------------------------------------------
(* Checks of the model itself *)

\* every division of the pricing formula is exact on the inputs drawn
ExactOn(f) ==
    /\ (f.size * f.size) % 2000 = 0
    /\ (f.avg_local_rent * f.avg_local_rent) % 1000000 = 0
    /\ Accumulated(InitCoefficients, f) % 5 = 0

GridExact ==
    /\ est.stage # "none" => ExactOn(est.features)
    /\ \A t \in DOMAIN pc : pc[t] \in {"parsed", "computed"} => ExactOn(features[t])

\* a decimal tie of f"{n/d:.1f}" whose quotient is inexact in binary64
InexactTie(n, d) == 2 * (n % (d \div 10)) = d \div 10 /\ n % (d \div 4) # 0

OneDecimalTie(a) ==
    \/ a >= Crore /\ a < 100 * Crore /\ InexactTie(a, Crore)
    \/ a >= Lakh /\ a < 100 * Lakh /\ InexactTie(a, Lakh)

NoInexactTie ==
    /\ fmt.stage # "none" => ~OneDecimalTie(fmt.amount)
    /\ \A t \in DOMAIN pc : pc[t] = "computed" =>
          ~OneDecimalTie(predicted_price[t]) /\ ~InexactTie(predicted_price[t], Lakh)

----------------------------------------------------------------------------
(* The claims *)

PredictAnswered(t) == pc[t] = "responded" /\ route[t] = "/predict"

SuccessKeys == {"success", "predicted_price", "formatted_price", "price_in_lakhs"}
FailureKeys == {"success", "error"}

(* C1: predict_price is at least 1,000,000 on every feature record drawn, and *)
(* so are the price it hands back to a /predict request and the amount of     *)
(* every successful /predict response, whatever requests came before.         *)
C1_FloorHolds ==
    \A t \in DOMAIN pc :
        /\ pc[t] = "idle" =>
               \A f \in FeatureRecords : predict_price(coefficients, f) >= PriceFloor
        /\ pc[t] = "computed" => predicted_price[t] >= PriceFloor
        /\ (PredictAnswered(t) /\ response[t].success) =>
               response[t].predicted_price >= PriceFloor

\* a successful response whose price before the floor was negative
C1_Witness ==
    \E t \in DOMAIN pc :
        /\ PredictAnswered(t) /\ response[t].success
        /\ features[t].growth_rate < 0
        /\ TierAdjusted(features[t], Accumulated(coefficients, features[t])) < 0
        /\ response[t].predicted_price = PriceFloor

\* v is the accumulated price acc times the multiplier of the record's tier
TierFactorOf(f, acc, v) ==
    /\ f.city_tier = 1 => 5 * v = 6 * acc
    /\ f.city_tier = 3 => 5 * v = 3 * acc
    /\ f.city_tier \notin {1, 3} => v = acc

\* acc holds the tier_2 weight exactly when the record's tier is 2
Tier2Additive(f, acc) ==
    LET without == Accumulated([coefficients EXCEPT !.tier_2 = W(0)], f)
    IN  IF f.city_tier = 2 THEN acc = without + coefficients.tier_2.num
        ELSE acc = without

(* C2, as stated: the estimate for tier 1 is 1.2 times the accumulated price, *)
(* for tier 3 0.6 times, for tier 2 the accumulated price itself, which holds *)
(* the tier_2 adjustment.                                                     *)
C2_Original ==
    est.stage = "returned" =>
        /\ TierFactorOf(est.features, est.acc, est.result)
        /\ Tier2Additive(est.features, est.acc)

(* C2, amended: the price before the floor is 1.2 times the accumulated price *)
(* for tier 1, 0.6 times for tier 3 and the accumulated price itself for any  *)
(* other tier (exactly one of the three), the accumulated price holds the     *)
(* tier_2 adjustment exactly for tier 2, and the estimate is the larger of    *)
(* the price before the floor and 1,000,000.                                  *)
C2_TierThenFloor ==
    est.stage = "returned" =>
        /\ TierFactorOf(est.features, est.acc, est.pre)
        /\ Tier2Additive(est.features, est.acc)
        /\ est.result = Max(est.pre, PriceFloor)

\* a tier-1 estimate that the floor, not the multiplier, decides
C2_Witness ==
    /\ est.stage = "returned"
    /\ est.features.city_tier = 1
    /\ 5 * est.pre = 6 * est.acc
    /\ est.pre < PriceFloor
    /\ est.result = PriceFloor

(* C3: for two records that differ only in size, the larger size has the      *)
(* strictly larger price before the floor, and an estimate at least as large. *)
C3_MonotoneInSize ==
    est.stage = "returned" =>
        \A s2 \in Sizes :
            s2 > est.features.size =>
                LET f2 == [est.features EXCEPT !.size = s2]
                IN  /\ TierAdjusted(f2, Accumulated(coefficients, f2)) > est.pre
                    /\ calculate_ols_price(coefficients, f2) >= est.result

\* two sizes whose prices before the floor differ and whose estimates are equal
C3_Witness ==
    /\ est.stage = "returned"
    /\ \E s2 \in Sizes :
          /\ s2 > est.features.size
          /\ LET f2 == [est.features EXCEPT !.size = s2]
             IN  /\ TierAdjusted(f2, Accumulated(coefficients, f2)) > est.pre
                 /\ calculate_ols_price(coefficients, f2) = est.result

(* C4: an amount of 10,000,000 or more is rendered in crores with suffix      *)
(* " Cr", without decimals when the crores are 100 or more and with one       *)
(* decimal otherwise; 10,000,000 gives "₹1.0 Cr" and 999,999,999 gives        *)
(* "₹100 Cr".                                                                 *)
C4_CroresBranch ==
    (fmt.stage = "returned" /\ fmt.amount >= Crore) =>
        /\ fmt.out = <<RUPEE>>
                     \o (IF fmt.amount >= 100 * Crore
                         THEN Fixed0(fmt.amount, Crore) ELSE Fixed1(fmt.amount, Crore))
                     \o <<" ", "C", "r">>
        /\ fmt.amount = 10000000 => fmt.out = <<RUPEE, "1", ".", "0", " ", "C", "r">>
        /\ fmt.amount = 999999999 => fmt.out = <<RUPEE, "1", "0", "0", " ", "C", "r">>

(* C5: an amount from 100,000 up to 10,000,000 is rendered in lakhs with      *)
(* suffix " L", and the one-decimal rendering never shows 100.0 or more; for  *)
(* 9,999,999 the output is not "₹100.0 L".                                    *)
C5_LakhsBranch ==
    (fmt.stage = "returned" /\ fmt.amount >= Lakh /\ fmt.amount < Crore) =>
        /\ fmt.out \in {<<RUPEE>> \o Fixed0(fmt.amount, Lakh) \o <<" ", "L">>,
                        <<RUPEE>> \o Fixed1(fmt.amount, Lakh) \o <<" ", "L">>}
        /\ fmt.out = <<RUPEE>> \o Fixed1(fmt.amount, Lakh) \o <<" ", "L">> =>
               RoundHalfEven(fmt.amount, Lakh \div 10) < 1000
        /\ fmt.amount = 9999999 =>
               fmt.out # <<RUPEE, "1", "0", "0", ".", "0", " ", "L">>

\* the seven steps on the scenario's numbers
ScenarioAmount ==
    Max(((3000000
          + 2500 * 1000 + 800000 * 2 + 400000 * 2 + 15 * 20000 + 8000000 * 5
          + (1000 * 1000) \div 2000 - (20000 * 20000) \div 1000000
          - 200000 * (1 * 2) + 5000000 * (1 * 5)
          + 300000 + 200000) * 6) \div 5, 1000000)

(* C6: the scenario request is answered with the amount the seven steps give, *)
(* 87,960,120, the formatted string "₹8.8 Cr" and the Lakhs string            *)
(* "₹879.6 Lakhs".                                                            *)
C6_Scenario ==
    \A t \in DOMAIN pc :
        (PredictAnswered(t) /\ form[t] = ScenarioForm) =>
            /\ ScenarioAmount = 87960120
            /\ response[t] =
                  [success |-> TRUE,
                   predicted_price |-> ScenarioAmount,
                   formatted_price |-> <<RUPEE, "8", ".", "8", " ", "C", "r">>,
                   price_in_lakhs |->
                       <<RUPEE, "8", "7", "9", ".", "6", " ", "L", "a", "k", "h", "s">>]

C6_Witness ==
    \E t \in DOMAIN pc : PredictAnswered(t) /\ form[t] = ScenarioForm /\ response[t].success

\* a response is a full success or a full failure
WellShaped(r) ==
    \/ DOMAIN r = SuccessKeys /\ r.success
    \/ DOMAIN r = FailureKeys /\ ~r.success

EnumeratedTypes == {StrHouse, StrApartment, StrOther}

OutsideEnumeration(fm) ==
    "property_type" \in DOMAIN fm /\ fm["property_type"] \notin EnumeratedTypes

(* C7, as stated: a /predict request with a field missing, or a numeric field *)
(* that does not parse, or a property_type outside house / apartment / other, *)
(* is answered by a failure without amount; every response is a full success  *)
(* or a full failure; and the answer depends on the request alone.            *)
C7_Original ==
    \A t \in DOMAIN pc :
        PredictAnswered(t) =>
            /\ WellShaped(response[t])
            /\ (FirstFault(form[t]) # 0 \/ OutsideEnumeration(form[t])) =>
                   DOMAIN response[t] = FailureKeys
            /\ response[t] = predict(InitCoefficients, form[t])

(* C7, amended: a /predict request with a field missing, or a numeric field   *)
(* that does not parse, is answered by a failure without amount; a            *)
(* property_type outside house / apartment / other is no error and is priced  *)
(* as an apartment; every response is a full success or a full failure; and   *)
(* the answer depends on the request alone, failures before it or not.        *)
C7_InputErrors ==
    \A t \in DOMAIN pc :
        PredictAnswered(t) =>
            /\ WellShaped(response[t])
            /\ FirstFault(form[t]) # 0 => DOMAIN response[t] = FailureKeys
            /\ FirstFault(form[t]) = 0 => DOMAIN response[t] = SuccessKeys
            /\ (FirstFault(form[t]) = 0 /\ OutsideEnumeration(form[t])) =>
                   response[t] = predict(InitCoefficients,
                                         [form[t] EXCEPT !["property_type"] = StrApartment])
            /\ response[t] = predict(InitCoefficients, form[t])

\* a failure answered after an earlier failure
C7_Witness ==
    \E t \in DOMAIN pc :
        /\ failed_before
        /\ PredictAnswered(t)
        /\ FirstFault(form[t]) # 0
        /\ DOMAIN response[t] = FailureKeys

CoefficientNames ==
    {"intercept", "size", "beds", "baths", "average_rent", "growth_rate",
     "size_squared", "nearby_rent_squared", "tier_beds", "tier_growth", "tier_2",
     "property_type_house", "property_type_other", "rera_id_1", "furnishing_4",
     "furnishing_other", "move_in_1"}

(* C8: every /retrain response is a success that carries the coefficient      *)
(* table with exactly the 17 named entries and the list of the ten feature    *)
(* names, whatever requests came before.                                      *)
C8_DescribeModel ==
    \A t \in DOMAIN pc :
        (pc[t] = "responded" /\ route[t] = "/retrain") =>
            /\ response[t].success
            /\ DOMAIN response[t].model_info.coefficients = CoefficientNames
            /\ Cardinality(DOMAIN response[t].model_info.coefficients) = 17
            /\ response[t].model_info.coefficients = InitCoefficients
            /\ response[t].model_info.features = FormFields

\* a /retrain answered after a failed /predict
C8_Witness ==
    \E t \in DOMAIN pc :
        failed_before /\ pc[t] = "responded" /\ route[t] = "/retrain" /\ response[t].success

\* the price of features f with the furnishing adjustment w in place of the code's
WithFurnishing(f, w) ==
    Floored(TierAdjusted(f,
        Accumulated([coefficients EXCEPT !.furnishing_4 = W(0), !.furnishing_other = W(0)], f)
        + w))

(* C9: a /predict request with furnishing 4 gets the furnishing_4 weight      *)
(* (500,000) added, one with furnishing "other" gets furnishing_other         *)
(* (800,000), any other gets neither.                                         *)
C9_Furnishing ==
    \A t \in DOMAIN pc :
        pc[t] = "computed" =>
            predicted_price[t] =
                WithFurnishing(features[t],
                    IF form[t]["furnishing"] = <<"4">> THEN 500000
                    ELSE IF form[t]["furnishing"] = StrOther THEN 800000
                    ELSE 0)

(* C10: with the request threads interleaved, the coefficient table and the   *)
(* feature list keep their initial values, and every /predict response is     *)
(* the one the same request gets when it runs alone.                          *)
C10_Stateless ==
    /\ coefficients = InitCoefficients
    /\ feature_columns = InitFeatureColumns
    /\ \A t \in DOMAIN pc :
          /\ pc[t] = "computed" =>
                 predicted_price[t] = predict_price(InitCoefficients, ParsedFeatures(form[t]))
          /\ PredictAnswered(t) => response[t] = predict(InitCoefficients, form[t])

\* two requests in flight at once, with different forms
C10_Witness ==
    \E t, u \in DOMAIN pc :
        /\ t # u
        /\ pc[t] = "computed" /\ PredictAnswered(u)
        /\ form[t] # form[u]
        /\ response[u].success

====
